---- MODULE Spec2Model ----
(***************************************************************************)
(* A model of cc-parser (src/src/parser.py): the CCParser pipeline that    *)
(* migrates v5 configuration documents to the v6 layout.                   *)
(*                                                                         *)
(* Representation.                                                         *)
(*   - a Python dict whose key order is irrelevant to the result is a      *)
(*     function from a finite set of strings (EmptyDict is {});            *)
(*   - a Python dict whose insertion order reaches the serialized output   *)
(*     and depends on an iteration order the code does not fix (the two    *)
(*     documents keyed by preset) is an ordered dict [order, map];         *)
(*   - a leaf value is a string, modelled as a sequence of characters, so  *)
(*     that str.split can be computed on it;                               *)
(*   - a value that is either a mapping or a scalar is a tagged record     *)
(*     [isdict, d, s], the tag standing for isinstance(v, dict).           *)
(***************************************************************************)
EXTENDS Naturals, Sequences, FiniteSets, TLC

\* ------------------------------------------------------------------ bounds
MaxRuns   == 2   \* how many times main() is run on the same inputs
MaxStrLen == 3   \* longest movement-trigger string drawn
NumSlots  == 10  \* slots of the skills schema "SL"
MaxVal    == 2   \* distinct leaf values drawn for the resolver harness

\* --------------------------------------------------------- program constants
\* parser.py:27-63
PARSE_MAPPING ==
       "selected_character" :> "current_char"
    @@ "main_character" :> "main_char_position"
    @@ "allow_potions" :> "use_potions"
    @@ "allow_speciality" :> "use_transform"
    @@ "allow_awakening" :> "use_awakening"
    @@ "allow_gold_portal_skills" :> "gold_portal_skills"
    @@ "stage_1_focus" :> "focus_enemies_s1"
    @@ "heal_at" :> "hp_value"
    @@ "game_class" :> "class"
    @@ "map" :> "map_key"
    @@ "interact" :> "interact_key"
    @@ "potion" :> "potion_key"
    @@ "aura_potion" :> "aura_potion_key"
    @@ "inventory" :> "inventory_key"
    @@ "speciality" :> "transform_key"
    @@ "speciality_2" :> "switch_gun_key"
    @@ "integrated_dungeon_1" :> "chaos_ui_alt"
    @@ "integrated_dungeon_2" :> "chaos_ui_q"
    @@ "pet_ui_1" :> "pet_alt"
    @@ "pet_ui_2" :> "pet_p"
    @@ "quest_ui_1" :> "quest_alt"
    @@ "quest_ui_2" :> "quest_j"
    @@ "guild_ui_1" :> "guild_ui_alt"
    @@ "guild_ui_2" :> "guild_ui_u"
    @@ "bifrost_ui_1" :> "bifrost_alt"
    @@ "bifrost_ui_2" :> "bifrost_w"
    @@ "id" :> "discord_id"
    @@ "token" :> "discord_token"
    @@ "error_mention" :> "at_on_events"
    @@ "post_special_portal" :> "post_specials"
    @@ "post_progress" :> "post_time"
    @@ "post_statistics" :> "post_updates"
    @@ "shutdown_pc" :> "acr_shutdown_pc"
    @@ "aid_research" :> "include_guild"
    @@ "priority" :> "skill_priorities"

\* parser.py:127, the sections parse_settings walks, in order
SECTIONS == <<"global", "chaos", "discord", "altcycler">>

\* parser.py:153 and :283, the top-level keys that are not presets
RESERVED == {"global_keys", "chaos", "discord", "altcycler"}

\* parser.py:211, `if idx < 9`
IndicatorLimit == 9

\* parser.py:345-350, the files _save_parsed_files writes
OUTPUT_FILES == {"settings", "keybinds", "altcycler", "skills"}

\* ------------------------------------------------------------ dictionaries
EmptyDict == [k \in {} |-> <<>>]

\* d[k] = v
DictSet(d, k, v) == [x \in DOMAIN d \cup {k} |-> IF x = k THEN v ELSE d[x]]

EmptyODict == [order |-> <<>>, map |-> EmptyDict]

\* d[k] = v on an insertion-ordered dict: a new key goes last, an existing
\* key keeps its place
ODictSet(od, k, v) ==
    [order |-> IF k \in DOMAIN od.map THEN od.order ELSE Append(od.order, k),
     map   |-> DictSet(od.map, k, v)]

\* a slot value that is a mapping / that is a scalar
Obj(d)    == [isdict |-> TRUE,  d |-> d,         s |-> <<>>]
Scalar(s) == [isdict |-> FALSE, d |-> EmptyDict, s |-> s]

\* --------------------------------------------------------------- resolver
\* A mutation of _add_retained_keys that forgets the schema test.
AddRetainedKeysNoFilter(nd, tp, sc) ==
    [k \in DOMAIN nd \cup DOMAIN tp |-> IF k \in DOMAIN tp THEN tp[k] ELSE nd[k]]

\* parser.py:230-250  _add_retained_keys(new_dict, to_parse, schema)
AddRetainedKeys(nd, tp, sc) ==
    LET hit == {k \in DOMAIN tp : k \in DOMAIN sc}
    IN  [k \in DOMAIN nd \cup hit |-> IF k \in hit THEN tp[k] ELSE nd[k]]

\* A mutation of _add_parse_map_keys that never overwrites a key already set.
AddParseMapKeysKeepFirst(nd, tp, sc) ==
    LET hit == {k \in DOMAIN PARSE_MAPPING :
                   k \in DOMAIN sc /\ PARSE_MAPPING[k] \in DOMAIN tp}
    IN  [k \in DOMAIN nd \cup hit |->
            IF k \in DOMAIN nd THEN nd[k] ELSE tp[PARSE_MAPPING[k]]]

\* parser.py:252-271  _add_parse_map_keys(new_dict, to_parse, schema)
AddParseMapKeys(nd, tp, sc) ==
    LET hit == {k \in DOMAIN PARSE_MAPPING :
                   k \in DOMAIN sc /\ PARSE_MAPPING[k] \in DOMAIN tp}
    IN  [k \in DOMAIN nd \cup hit |->
            IF k \in hit THEN tp[PARSE_MAPPING[k]] ELSE nd[k]]

\* The two passes in the order every full call site runs them
\* (parser.py:97-98, 131-132, 167-168, 183-184), into an empty dict.
Resolve(tp, sc) == AddParseMapKeys(AddRetainedKeys(EmptyDict, tp, sc), tp, sc)

\* ------------------------------------------------------------------ strings
RECURSIVE Split(_, _)
\* str.split(sep) for a one-character sep: the list of segments between the
\* separators; a string without sep is a single segment, "" gives [""]
Split(s, sep) ==
    IF \A i \in 1..Len(s) : s[i] # sep
    THEN <<s>>
    ELSE LET i == CHOOSE j \in 1..Len(s) :
                     s[j] = sep /\ \A h \in 1..(j-1) : s[h] # sep
         IN  <<SubSeq(s, 1, i-1)>> \o Split(SubSeq(s, i+1, Len(s)), sep)

Digit == <<"0", "1", "2", "3", "4", "5", "6", "7", "8", "9">>

\* str(i) for 1 <= i <= 99, as the f-string of parser.py:212 formats idx
IntToStr(i) ==
    IF i < 10 THEN Digit[i + 1] ELSE Digit[(i \div 10) + 1] \o Digit[(i % 10) + 1]

\* parser.py:212  f"skill_{idx}"
SkillKey(idx) == "skill_" \o IntToStr(idx)

\* -------------------------------------------------------------------- state
VARIABLES
    \* loaded once by __init__ (parser.py:308-334), read-only afterwards
    settings_data,     \* input/settings.json: top-level key -> dict
    rotation_data,     \* input/customrotation.json: preset -> dict
    altcycler_data,    \* input/acrc.json, in document order: <<[c, v]>>
    rgb_data,          \* input/rgb.json: preset -> (skill_N -> value)
    skills_schema,     \* schema/skills.json: "SL" -> <<[k, v]>> in schema order
    settings_schema,   \* schema/settings.json: section or "SL" -> schema slice
    altcycler_schema,  \* schema/altcycler.json: "c1" -> schema slice
    keybinds_schema,   \* schema/keybinds.json: schema slice
    \* built by the run (parser.py:336-341)
    parsed_rotation_data,
    parsed_settings_data,
    parsed_keybinds,
    parsed_altcycler_data,
    output,       \* the .json files of output/: file name -> document written
    pc,           \* position of __call__ (parser.py:71-79), "done" or "aborted"
    err,          \* the exception main() caught (main.py:12), or NoError
    todo,         \* presets the loop of parse_presets has still to visit
    run,          \* which run of main() this is
    prev_output,  \* output/ as the previous run left it
    \* the resolver on its own
    new_dict, to_parse, schema, rpc

inputs == <<settings_data, rotation_data, altcycler_data, rgb_data,
            skills_schema, settings_schema, altcycler_schema, keybinds_schema>>
parsed == <<parsed_rotation_data, parsed_settings_data, parsed_keybinds,
            parsed_altcycler_data>>
resolver == <<new_dict, to_parse, schema, rpc>>
vars == <<inputs, parsed, output, pc, err, todo, run, prev_output, resolver>>

NoError == [type |-> "none", step |-> "none", presets |-> {}]
Raise(type, step) == [type |-> type, step |-> step, presets |-> {}]

\* ---------------------------------------------------------- preset parsing
\* parser.py:152-154 and 282-284
AllPresets == DOMAIN settings_data \ RESERVED

SL == skills_schema["SL"]

\* position of a key in the skills schema, 0 when it has no such slot
SlotIndex(key) ==
    IF \E i \in 1..Len(SL) : SL[i].k = key
    THEN CHOOSE i \in 1..Len(SL) : SL[i].k = key
    ELSE 0

\* A mutation of the slot test of parser.py:211 that also injects at slot 9.
InjectsIndicatorOffByOne(idx) == idx < IndicatorLimit + 1

\* parser.py:211  `if idx < 9`
InjectsIndicator(idx) == idx < IndicatorLimit

\* A mutation of the scalar branch that prefers the legacy key.
ScalarLookupLegacyFirst(preset, k) ==
    LET tp == rotation_data[preset]
    IN  IF k \in DOMAIN PARSE_MAPPING /\ PARSE_MAPPING[k] \in DOMAIN tp
        THEN [ok |-> TRUE, v |-> tp[PARSE_MAPPING[k]]]
        ELSE IF k \in DOMAIN tp
        THEN [ok |-> TRUE, v |-> tp[k]]
        ELSE [ok |-> FALSE, v |-> <<>>]

\* parser.py:214-219  the try/except of a scalar slot: the direct key, then
\* the key PARSE_MAPPING gives; ok is FALSE when the except branch raises
ScalarLookup(preset, k) ==
    LET tp == rotation_data[preset]
    IN  IF k \in DOMAIN tp
        THEN [ok |-> TRUE, v |-> tp[k]]
        ELSE IF k \in DOMAIN PARSE_MAPPING /\ PARSE_MAPPING[k] \in DOMAIN tp
        THEN [ok |-> TRUE, v |-> tp[PARSE_MAPPING[k]]]
        ELSE [ok |-> FALSE, v |-> <<>>]

RECURSIVE SkillSlots(_, _, _)
\* parser.py:207-219  the loop over the slots, from position idx on, with acc
\* the slots built so far; stops at the first slot that raises
SkillSlots(preset, idx, acc) ==
    IF idx > Len(SL)
    THEN [ok |-> TRUE, parsed |-> acc, type |-> "none"]
    ELSE
      LET k == SL[idx].k
          v == SL[idx].v
      IN
      IF v.isdict
      THEN LET kept == AddRetainedKeys(EmptyDict, rotation_data[preset], v.d)
           IN  IF InjectsIndicator(idx)
               THEN IF SkillKey(idx) \in DOMAIN rgb_data[preset]
                    THEN SkillSlots(preset, idx + 1,
                            DictSet(acc, k,
                               Obj(DictSet(kept, "rgb", rgb_data[preset][SkillKey(idx)]))))
                    ELSE [ok |-> FALSE, parsed |-> DictSet(acc, k, Obj(kept)),
                          type |-> "KeyError"]
               ELSE SkillSlots(preset, idx + 1, DictSet(acc, k, Obj(kept)))
      ELSE LET got == ScalarLookup(preset, k)
           IN  IF got.ok
               THEN SkillSlots(preset, idx + 1, DictSet(acc, k, Scalar(got.v)))
               ELSE [ok |-> FALSE, parsed |-> DictSet(acc, k, Obj(EmptyDict)),
                     type |-> "KeyError"]

\* parser.py:221-222  the awakening slot takes the retained keys of the
\* preset's settings sub-document
Awakening(preset, slots) ==
    IF "awakening" \notin DOMAIN slots
    THEN [ok |-> FALSE, parsed |-> slots, type |-> "KeyError"]
    ELSE
      LET awk == slots["awakening"]
          sc  == SL[SlotIndex("awakening")].v
      IN  IF awk.isdict /\ sc.isdict
          THEN [ok |-> TRUE, type |-> "none",
                parsed |-> DictSet(slots, "awakening",
                              Obj(AddRetainedKeys(awk.d, settings_data[preset], sc.d)))]
          ELSE IF DOMAIN settings_data[preset] = {}
          THEN [ok |-> TRUE, parsed |-> slots, type |-> "none"]
          ELSE [ok |-> FALSE, parsed |-> slots, type |-> "AttributeError"]

\* parser.py:192-228  _parse_preset_skills(preset)
\* (rotation_data[preset] at line 202 cannot raise: the completeness check
\* has passed; rgb_data[preset] at line 205 can)
ParsePresetSkills(preset) ==
    IF preset \notin DOMAIN rgb_data
    THEN [ok |-> FALSE, parsed |-> EmptyDict, type |-> "KeyError"]
    ELSE LET loop == SkillSlots(preset, 1, EmptyDict)
         IN  IF loop.ok THEN Awakening(preset, loop.parsed) ELSE loop

\* parser.py:170-190  _parse_preset_settings(preset)
ParsePresetSettings(preset) ==
    Resolve(settings_data[preset], settings_schema["SL"])

\* ------------------------------------------------------------ other steps
\* parser.py:285
rotation_diff == AllPresets \ DOMAIN rotation_data
\* parser.py:286
skill_diff == AllPresets \ DOMAIN rgb_data

\* parser.py:127-132  the loop of parse_settings over the sections, from
\* position i on
RECURSIVE SectionLoop(_, _)
SectionLoop(i, acc) ==
    IF i > Len(SECTIONS) THEN acc
    ELSE SectionLoop(i + 1,
            ODictSet(acc, SECTIONS[i],
                Resolve(settings_data["global_keys"], settings_schema[SECTIONS[i]])))

\* parser.py:165-168  the loop of parse_altcycler over the characters, in
\* document order; _add_retained_keys raises on a value without .items()
RECURSIVE AltcyclerLoop(_, _)
AltcyclerLoop(i, acc) ==
    IF i > Len(altcycler_data) THEN [ok |-> TRUE, parsed |-> acc]
    ELSE LET c == altcycler_data[i].c
             v == altcycler_data[i].v
         IN  IF v.isdict
             THEN AltcyclerLoop(i + 1,
                     DictSet(acc, c, Resolve(v.d, altcycler_schema["c1"])))
             ELSE [ok |-> FALSE, parsed |-> DictSet(acc, c, EmptyDict)]

\* A mutation of the derivation that takes the last segment.
MouseKeyLastSegment(s) == Split(s, "-")[Len(Split(s, "-"))]

\* parser.py:101  data_to_parse["move_with"].split("-")[0]
MouseKey(s) == Split(s, "-")[1]

\* ----------------------------------------------------------------- actions
\* parser.py:355-358  _wipe_output_folder, the first step of __call__
WipeOutputFolder ==
    /\ pc = "wipe"
    /\ output' = EmptyDict
    /\ pc' = "check"
    /\ UNCHANGED <<inputs, parsed, err, todo, run, prev_output, resolver>>

\* parser.py:273-290  _ensure_preset_completeness
EnsurePresetCompleteness ==
    /\ pc = "check"
    /\ IF rotation_diff # {} \/ rotation_diff # {}
       THEN /\ pc' = "aborted"
            /\ err' = [type |-> "LookupError", step |-> "check",
                       presets |-> IF skill_diff # {} THEN skill_diff
                                                      ELSE rotation_diff]
       ELSE /\ pc' = "settings"
            /\ err' = err
    /\ UNCHANGED <<inputs, parsed, output, todo, run, prev_output, resolver>>

\* parser.py:112-138  parse_settings
ParseSettings ==
    /\ pc = "settings"
    /\ IF "global_keys" \notin DOMAIN settings_data
       THEN /\ pc' = "aborted"
            /\ err' = Raise("KeyError", "parse_settings")
            /\ UNCHANGED <<parsed_settings_data, todo>>
       ELSE /\ parsed_settings_data' = SectionLoop(1, parsed_settings_data)
            /\ todo' = AllPresets
            /\ pc' = IF AllPresets = {} THEN "keybinds" ELSE "presets"
            /\ err' = err
    /\ UNCHANGED <<inputs, parsed_rotation_data, parsed_keybinds,
                   parsed_altcycler_data, output, run, prev_output, resolver>>

\* parser.py:156-158  one iteration of the loop of parse_presets; all_presets
\* is a set of str, whose iteration order the language leaves open
ParsePresets ==
    /\ pc = "presets"
    /\ \E preset \in todo :
         LET skills == ParsePresetSkills(preset)
         IN  /\ parsed_settings_data' =
                   ODictSet(parsed_settings_data, preset, ParsePresetSettings(preset))
             /\ parsed_rotation_data' =
                   ODictSet(parsed_rotation_data, preset, skills.parsed)
             /\ IF skills.ok
                THEN /\ todo' = todo \ {preset}
                     /\ pc' = IF todo \ {preset} = {} THEN "keybinds" ELSE "presets"
                     /\ err' = err
                ELSE /\ todo' = todo
                     /\ pc' = "aborted"
                     /\ err' = Raise(skills.type, "parse_presets")
    /\ UNCHANGED <<inputs, parsed_keybinds, parsed_altcycler_data, output, run,
                   prev_output, resolver>>

\* parser.py:81-110  parse_keybinds, with its own write of keybinds.json
ParseKeybinds ==
    /\ pc = "keybinds"
    /\ LET data_to_parse == settings_data["global_keys"]
           resolved == AddParseMapKeys(
                          AddRetainedKeys(parsed_keybinds, data_to_parse, keybinds_schema),
                          data_to_parse, keybinds_schema)
       IN  IF "move_with" \notin DOMAIN data_to_parse
           THEN /\ parsed_keybinds' = resolved
                /\ pc' = "aborted"
                /\ err' = Raise("KeyError", "parse_keybinds")
                /\ output' = output
           ELSE /\ parsed_keybinds' =
                      DictSet(resolved, "primary_mouse", MouseKey(data_to_parse["move_with"]))
                /\ output' = DictSet(output, "keybinds", parsed_keybinds')
                /\ pc' = "altcycler"
                /\ err' = err
    /\ UNCHANGED <<inputs, parsed_rotation_data, parsed_settings_data,
                   parsed_altcycler_data, todo, run, prev_output, resolver>>

\* parser.py:160-168  parse_altcycler
ParseAltcycler ==
    /\ pc = "altcycler"
    /\ LET loop == AltcyclerLoop(1, parsed_altcycler_data)
       IN  /\ parsed_altcycler_data' = loop.parsed
           /\ IF loop.ok
              THEN pc' = "save" /\ err' = err
              ELSE pc' = "aborted" /\ err' = Raise("AttributeError", "parse_altcycler")
    /\ UNCHANGED <<inputs, parsed_rotation_data, parsed_settings_data,
                   parsed_keybinds, output, todo, run, prev_output, resolver>>

\* parser.py:343-353  _save_parsed_files
SaveParsedFiles ==
    /\ pc = "save"
    /\ output' = [f \in OUTPUT_FILES |->
                    CASE f = "settings"  -> parsed_settings_data
                      [] f = "keybinds"  -> parsed_keybinds
                      [] f = "altcycler" -> parsed_altcycler_data
                      [] f = "skills"    -> parsed_rotation_data]
    /\ pc' = "done"
    /\ UNCHANGED <<inputs, parsed, err, todo, run, prev_output, resolver>>

\* main.py:6-18  main() is started again on the same input/ and schema/:
\* a new CCParser is constructed (parser.py:65-69) and called
Main ==
    /\ pc \in {"done", "aborted"}
    /\ run < MaxRuns
    /\ run' = run + 1
    /\ prev_output' = output
    /\ parsed_rotation_data' = EmptyODict
    /\ parsed_settings_data' = EmptyODict
    /\ parsed_keybinds' = EmptyDict
    /\ parsed_altcycler_data' = EmptyDict
    /\ err' = NoError
    /\ todo' = {}
    /\ pc' = "wipe"
    /\ UNCHANGED <<inputs, output, resolver>>

\* ------------------------------------------------------------------ inputs
\* What json.load can hand to __init__, drawn from small sets.  Every leaf
\* of an input document is a different string, <<document, key>>, so that
\* an output value shows where it was read from.

\* a schema slice with the keys ks (the values of a slice are never read)
KeysDict(ks) == [k \in ks |-> <<>>]
\* a source mapping with the keys ks
Doc(name, ks) == [k \in ks |-> <<name, k>>]

PresetNames == {"A", "B", "global"}
Chars == {"L", "-"}
Strings == UNION {[1..n -> Chars] : n \in 0..MaxStrLen}

GlobalKeys(ks) ==
    Doc("global_keys", ks \cup {"current_char", "main_character", "hp_value",
                                "discord_id", "acr_shutdown_pc"})

SettingsData(presets, keys, gk) ==
    [k \in presets \cup {"global_keys", "chaos"} |->
        CASE k = "global_keys" -> gk
          [] k = "chaos"       -> Doc("settings.chaos", {"hp_value"})
          [] OTHER             -> Doc("settings." \o k, keys)]

RotationData(presets, keys) == [p \in presets |-> Doc("rotation." \o p, keys)]

RgbData(presets, missing) ==
    [p \in presets |-> Doc("rgb." \o p, {SkillKey(i) : i \in (1..NumSlots) \ missing})]

SettingsSchema ==
    [k \in {"global", "chaos", "discord", "altcycler", "SL"} |->
        CASE k = "global"    -> KeysDict({"selected_character", "main_character"})
          [] k = "chaos"     -> KeysDict({"heal_at", "allow_potions"})
          [] k = "discord"   -> KeysDict({"id", "token"})
          [] k = "altcycler" -> KeysDict({"shutdown_pc"})
          [] k = "SL"        -> KeysDict({"game_class", "heal_at"})]

AltcyclerSchema == [k \in {"c1"} |-> KeysDict({"game_class", "main_character"})]

\* a skills schema of NumSlots slots: "awakening" at position pa, the slot
\* named sk at position pp (a mapping slot iff skIsDict), numbered skill
\* slots elsewhere; every mapping slot has the nested keys vs
SkillsSchema(pa, pp, sk, skIsDict, vs) ==
    [k \in {"SL"} |->
        [i \in 1..NumSlots |->
            CASE i = pa -> [k |-> "awakening", v |-> Obj(KeysDict(vs))]
              [] i = pp /\ i # pa ->
                    [k |-> sk,
                     v |-> IF skIsDict THEN Obj(KeysDict(vs)) ELSE Scalar(<<>>)]
              [] OTHER -> [k |-> IntToStr(i), v |-> Obj(KeysDict(vs))]]]

AltcyclerValues(c) ==
    {Obj(Doc("acrc." \o c, {"class"})),
     Obj(Doc("acrc." \o c, {"game_class", "main_character", "level"})),
     Scalar(<<"acrc", c>>)}

AltcyclerDocs ==
    {<<>>}
    \cup {<<[c |-> "c1", v |-> v1]>> : v1 \in AltcyclerValues("c1")}
    \cup {<<[c |-> "c1", v |-> v1], [c |-> "c2", v |-> v2]>> :
             v1 \in AltcyclerValues("c1"), v2 \in AltcyclerValues("c2")}

DefaultAltcycler == <<[c |-> "c1", v |-> Obj(Doc("acrc.c1", {"class", "level"}))]>>
DefaultSkillsSchema ==
    SkillsSchema(IndicatorLimit, NumSlots, "priority", FALSE, {"game_class", "rgb"})

\* parser.py:65-69  the state __init__ leaves, before the first __call__
Constructed ==
    /\ parsed_rotation_data = EmptyODict
    /\ parsed_settings_data = EmptyODict
    /\ parsed_keybinds = EmptyDict
    /\ parsed_altcycler_data = EmptyDict
    /\ output = EmptyDict
    /\ prev_output = EmptyDict
    /\ err = NoError
    /\ todo = {}
    /\ run = 1
    /\ pc = "wipe"
    /\ settings_schema = SettingsSchema
    /\ altcycler_schema = AltcyclerSchema

ResolverOff ==
    /\ new_dict = EmptyDict
    /\ to_parse = EmptyDict
    /\ schema = EmptyDict
    /\ rpc = "off"

\* the three documents name any presets
InitPresets ==
    /\ \E sp \in SUBSET PresetNames, rp \in SUBSET PresetNames, ip \in SUBSET PresetNames :
          /\ settings_data = SettingsData(sp, {"class", "heal_at", "game_class"},
                                          GlobalKeys({"move_with"}))
          /\ rotation_data = RotationData(rp, {"priority", "class"})
          /\ rgb_data = RgbData(ip, {})
    /\ skills_schema = DefaultSkillsSchema
    /\ keybinds_schema = KeysDict({"interact", "move_with"})
    /\ altcycler_data = DefaultAltcycler

\* one preset; the global keys, the keybinds schema and the alt-cycler
\* document vary
InitKeybinds ==
    /\ \E ks \in SUBSET {"interact", "interact_key"} :
          \/ settings_data = SettingsData({"A"}, {"class"}, GlobalKeys(ks))
          \/ \E mw \in Strings :
                settings_data = SettingsData({"A"}, {"class"},
                    [k \in DOMAIN GlobalKeys(ks) \cup {"move_with"} |->
                        IF k = "move_with" THEN mw ELSE GlobalKeys(ks)[k]])
    /\ rotation_data = RotationData({"A"}, {"priority", "class"})
    /\ rgb_data = RgbData({"A"}, {})
    /\ skills_schema = DefaultSkillsSchema
    /\ keybinds_schema \in {KeysDict(ks) : ks \in SUBSET {"interact", "move_with"}}
    /\ altcycler_data \in AltcyclerDocs

\* one preset; the skills schema, the preset's rotation, settings and
\* indicator sub-documents vary
InitSkills ==
    /\ \E pa \in {2, IndicatorLimit}, pp \in {IndicatorLimit - 1, NumSlots},
          sk \in {"priority", "combo"}, skIsDict \in BOOLEAN,
          vs \in SUBSET {"game_class", "rgb"} :
          /\ skills_schema = SkillsSchema(pa, pp, sk, skIsDict, vs)
          /\ \E rk \in SUBSET {"game_class", "class", "rgb", sk, "skill_priorities"} :
                rotation_data = RotationData({"A"}, rk)
    /\ \E sks \in {{}, {"game_class", "rgb"}} :
          settings_data = SettingsData({"A"}, sks, GlobalKeys({"move_with"}))
    /\ \E missing \in SUBSET {IndicatorLimit - 1, IndicatorLimit} :
          rgb_data = RgbData({"A"}, missing)
    /\ keybinds_schema = KeysDict({"interact", "move_with"})
    /\ altcycler_data = DefaultAltcycler

Init ==
    /\ Constructed
    /\ ResolverOff
    /\ InitPresets \/ InitKeybinds \/ InitSkills

Next ==
    \/ WipeOutputFolder
    \/ EnsurePresetCompleteness
    \/ ParseSettings
    \/ ParsePresets
    \/ ParseKeybinds
    \/ ParseAltcycler
    \/ SaveParsedFiles
    \/ Main

Spec == Init /\ [][Next]_vars

\* ------------------------------------------------- the resolver on its own
ResolverKeys == {"map", "map_key", "heal_at", "hp_value", "level"}

\* one call of each pass on new_dict, as parser.py:131-132 makes them
RetainedPass ==
    /\ rpc = "pass1"
    /\ new_dict' = AddRetainedKeys(new_dict, to_parse, schema)
    /\ rpc' = "pass2"
    /\ UNCHANGED <<inputs, parsed, output, pc, err, todo, run, prev_output,
                   to_parse, schema>>

ParseMapPass ==
    /\ rpc = "pass2"
    /\ new_dict' = AddParseMapKeys(new_dict, to_parse, schema)
    /\ rpc' = "done"
    /\ UNCHANGED <<inputs, parsed, output, pc, err, todo, run, prev_output,
                   to_parse, schema>>

InitResolver ==
    /\ Constructed
    /\ settings_data = SettingsData({}, {}, GlobalKeys({}))
    /\ rotation_data = RotationData({}, {})
    /\ rgb_data = RgbData({}, {})
    /\ skills_schema = DefaultSkillsSchema
    /\ keybinds_schema = KeysDict({})
    /\ altcycler_data = <<>>
    /\ new_dict = EmptyDict
    /\ schema \in {KeysDict(ks) : ks \in SUBSET ResolverKeys}
    /\ to_parse \in UNION {[ks -> 1..MaxVal] : ks \in SUBSET ResolverKeys}
    /\ rpc = "pass1"

NextResolver == RetainedPass \/ ParseMapPass

SpecResolver == InitResolver /\ [][NextResolver]_vars

\* ================================================================== claims
\* what the current run has got past
CheckPassed  == pc \in {"settings", "presets", "keybinds", "altcycler", "save", "done"}
                \/ (pc = "aborted" /\ err.step # "check")
CheckFailed  == pc = "aborted" /\ err.step = "check"
KeybindsPassed == pc \in {"altcycler", "save", "done"}
                  \/ (pc = "aborted" /\ err.step = "parse_altcycler")
KeybindsFailed == pc = "aborted" /\ err.step = "parse_keybinds"

\* the slot at position i of preset p in the skills document written
SlotOut(p, i) == output["skills"].map[p][SL[i].k]

\* ---------------------------------------------------------------------- C1
\* C1 (projection): after the two resolver passes into an initially empty
\* result, every key of the result is a key of the schema slice; a key of
\* the source mapping that the schema lacks never appears in the result.
C1_Projection ==
    rpc \in {"pass2", "done"} => DOMAIN new_dict \subseteq DOMAIN schema

\* both passes ran, each wrote a key, and the source has a key outside the
\* schema
C1_Witness ==
    /\ rpc = "done"
    /\ DOMAIN to_parse \ DOMAIN schema # {}
    /\ \E k \in DOMAIN new_dict : k \in DOMAIN to_parse
    /\ \E k \in DOMAIN new_dict : k \notin DOMAIN to_parse

\* ---------------------------------------------------------------------- C2
\* C2 (retention precedence): when a key k is in the schema slice and in
\* the source, and k is a new key of the rename table whose legacy key is
\* in the source too, the result holds the value stored under the legacy
\* key (the second pass), not the one stored under k (the first pass).
C2_RetentionPrecedence ==
    rpc = "done" =>
        \A k \in DOMAIN schema \cap DOMAIN to_parse :
            (k \in DOMAIN PARSE_MAPPING /\ PARSE_MAPPING[k] \in DOMAIN to_parse)
                => (k \in DOMAIN new_dict /\ new_dict[k] = to_parse[PARSE_MAPPING[k]])

\* a key matched by both passes, with two different values to choose from
C2_Witness ==
    /\ rpc = "done"
    /\ \E k \in DOMAIN schema \cap DOMAIN to_parse :
          /\ k \in DOMAIN PARSE_MAPPING
          /\ PARSE_MAPPING[k] \in DOMAIN to_parse
          /\ to_parse[k] # to_parse[PARSE_MAPPING[k]]
          /\ new_dict[k] = to_parse[PARSE_MAPPING[k]]

\* ---------------------------------------------------------------------- C3
SettingsPresets == DOMAIN settings_data \ RESERVED
RotationPresets == DOMAIN rotation_data \ RESERVED

\* C3 (consistency gate): the run aborts with the consistency error exactly
\* when the presets of the settings document and those of the rotation
\* document differ, in either direction, and the error names their
\* symmetric difference.
C3_ConsistencyGate ==
    /\ CheckPassed => SettingsPresets = RotationPresets
    /\ CheckFailed =>
          /\ SettingsPresets # RotationPresets
          /\ err.presets = (SettingsPresets \ RotationPresets)
                              \cup (RotationPresets \ SettingsPresets)

\* ---------------------------------------------------------------------- C4
\* the awakening slot keeps "rgb" from the preset's settings sub-document
AwakeningKeeps(p, i) ==
    /\ SL[i].k = "awakening"
    /\ "rgb" \in DOMAIN SL[i].v.d
    /\ "rgb" \in DOMAIN settings_data[p]

\* the value a mapping slot can hold under "rgb" without any injection: the
\* one kept from the settings sub-document (awakening), else the one kept
\* from the rotation sub-document
KeptIndicator(p, i) ==
    IF AwakeningKeeps(p, i)
    THEN {settings_data[p]["rgb"]}
    ELSE IF "rgb" \in DOMAIN SL[i].v.d /\ "rgb" \in DOMAIN rotation_data[p]
    THEN {rotation_data[p]["rgb"]}
    ELSE {}

\* C4 as amended (indicator injection boundary): in a run that completes,
\* a mapping slot at position N < 9 holds under "rgb" the indicator
\* rgb_data[preset]["skill_N"], unless it is the awakening slot and "rgb" is
\* kept from the preset's settings sub-document, which then wins; a mapping
\* slot at N >= 9 holds under "rgb" only what was kept from the source, and a
\* scalar slot, at any position, is a scalar without fields.
C4_IndicatorObjectSlots ==
    pc = "done" =>
        \A p \in AllPresets : \A i \in 1..Len(SL) :
            LET out == SlotOut(p, i)
                kept == KeptIndicator(p, i)
            IN  IF ~SL[i].v.isdict
                THEN ~out.isdict
                ELSE /\ out.isdict
                     /\ IF i < IndicatorLimit
                        THEN /\ "rgb" \in DOMAIN out.d
                             /\ out.d["rgb"] =
                                   IF AwakeningKeeps(p, i)
                                   THEN settings_data[p]["rgb"]
                                   ELSE rgb_data[p][SkillKey(i)]
                        ELSE IF kept = {}
                             THEN "rgb" \notin DOMAIN out.d
                             ELSE "rgb" \in DOMAIN out.d /\ out.d["rgb"] \in kept

\* a completed run whose skills schema has a mapping slot right below and
\* right at the limit, the first with the injected indicator
C4_Witness ==
    /\ pc = "done"
    /\ \E p \in AllPresets :
          /\ SL[IndicatorLimit - 1].v.isdict
          /\ SL[IndicatorLimit].v.isdict
          /\ SL[IndicatorLimit].k # "awakening"
          /\ "rgb" \in DOMAIN rotation_data[p]
          /\ SlotOut(p, IndicatorLimit - 1).d["rgb"]
                = rgb_data[p][SkillKey(IndicatorLimit - 1)]
          /\ "rgb" \in DOMAIN SlotOut(p, IndicatorLimit).d

\* C4 as stated: every slot at position N <= 8 ends up with an indicator
\* field equal to rgb_data[preset]["skill_N"], and no slot at N >= 9
\* receives one.
C4_Original ==
    pc = "done" =>
        \A p \in AllPresets : \A i \in 1..Len(SL) :
            LET out == SlotOut(p, i)
            IN  IF i < IndicatorLimit
                THEN /\ out.isdict
                     /\ "rgb" \in DOMAIN out.d
                     /\ SkillKey(i) \in DOMAIN rgb_data[p]
                     /\ out.d["rgb"] = rgb_data[p][SkillKey(i)]
                ELSE ~(/\ out.isdict
                       /\ "rgb" \in DOMAIN out.d
                       /\ SkillKey(i) \in DOMAIN rgb_data[p]
                       /\ out.d["rgb"] = rgb_data[p][SkillKey(i)])

\* ---------------------------------------------------------------------- C5
MoveWithPresent == "move_with" \in DOMAIN settings_data["global_keys"]
MoveWith == settings_data["global_keys"]["move_with"]
HasDelimiter(s) == \E i \in 1..Len(s) : s[i] = "-"

\* r is what precedes the first delimiter of s: all of s when it has none
BeforeFirstDelimiter(r, s) ==
    /\ Len(r) <= Len(s)
    /\ \A i \in 1..Len(r) : r[i] = s[i] /\ r[i] # "-"
    /\ Len(r) < Len(s) => s[Len(r) + 1] = "-"

C6_Idempotence ==
    (pc = "done" /\ run > 1 /\ DOMAIN prev_output = OUTPUT_FILES
        /\ "global" \notin AllPresets)
        => output = prev_output

\* ---------------------------------------------------------------------- C7
\* C7 (no partial output on abort): a run that aborts has written none of
\* the four output documents; documents are written only by runs in which
\* every parse step succeeded.
C7_NoPartialOutput ==
    pc = "aborted" => DOMAIN output = {}

\* The part of C7 that the code keeps: the consistency error, the lookup
\* errors of the presets and the movement-trigger error are all raised
\* before the first write, so a run aborting with one of them has written
\* nothing.
TaxonomyAbortsWriteNothing ==
    (pc = "aborted" /\ err.step \in {"check", "parse_settings", "parse_presets",
                                     "parse_keybinds"})
        => DOMAIN output = {}

\* ---------------------------------------------------------------------- C8
\* C8 (settings layout): after a successful run the settings document holds,
\* for each of the four sections, the resolver's result of the section's
\* schema slice against the global keys and, for each preset, the resolver's
\* result of the "SL" slice against the preset's sub-document, and nothing
\* else; no section is overwritten by a preset.
C8_SettingsLayout ==
    pc = "done" =>
        LET doc == output["settings"].map
            sections == {SECTIONS[i] : i \in 1..Len(SECTIONS)}
        IN  /\ DOMAIN doc = sections \cup AllPresets
            /\ \A sec \in sections :
                  doc[sec] = Resolve(settings_data["global_keys"], settings_schema[sec])
            /\ \A p \in AllPresets :
                  doc[p] = Resolve(settings_data[p], settings_schema["SL"])

\* ---------------------------------------------------------------------- C9
\* a scalar slot of the skills schema neither of whose lookups can succeed
Unresolvable(p, i) ==
    /\ ~SL[i].v.isdict
    /\ SL[i].k \notin DOMAIN rotation_data[p]
    /\ ~(/\ SL[i].k \in DOMAIN PARSE_MAPPING
         /\ PARSE_MAPPING[SL[i].k] \in DOMAIN rotation_data[p])

\* C9 (mandatory scalar slots): the value of a scalar slot is
\* rotation_data[preset][key] when the key is present, otherwise the value
\* under the key's legacy name when the rename table has the key and the
\* legacy name is present; when neither lookup succeeds the run does not get
\* past the presets: it aborts there with a lookup error.
C9_MandatoryScalarSlots ==
    /\ pc = "done" =>
          \A p \in AllPresets : \A i \in 1..Len(SL) :
              ~SL[i].v.isdict =>
                  /\ ~Unresolvable(p, i)
                  /\ ~SlotOut(p, i).isdict
                  /\ SlotOut(p, i).s =
                        IF SL[i].k \in DOMAIN rotation_data[p]
                        THEN rotation_data[p][SL[i].k]
                        ELSE rotation_data[p][PARSE_MAPPING[SL[i].k]]
    /\ (\E p \in AllPresets \cap DOMAIN rotation_data :
            \E i \in 1..Len(SL) : Unresolvable(p, i)) =>
          /\ pc \in {"wipe", "check", "settings", "presets", "aborted"}
          /\ pc = "aborted" => err.step \in {"check", "parse_presets"}
          /\ (pc = "aborted" /\ err.step = "parse_presets") => err.type = "KeyError"

\* a completed run with a scalar slot that has both names in the rotation
\* sub-document, the direct one having won
C9_Witness ==
    /\ pc = "done"
    /\ \E p \in AllPresets : \E i \in 1..Len(SL) :
          /\ ~SL[i].v.isdict
          /\ SL[i].k \in DOMAIN rotation_data[p]
          /\ SL[i].k \in DOMAIN PARSE_MAPPING
          /\ PARSE_MAPPING[SL[i].k] \in DOMAIN rotation_data[p]
          /\ SlotOut(p, i).s = rotation_data[p][SL[i].k]

\* --------------------------------------------------------------------- C10
\* m without its "rgb" key
WithoutIndicator(m) == [k \in DOMAIN m \ {"rgb"} |-> m[k]]

\* C10 (mapping slots use the full resolver): leaving the indicator field
\* aside, the output of a mapping slot is the two-pass resolver's result of
\* its nested schema against the preset's rotation sub-document; so for a
\* rename-table entry whose new key is in the nested schema and whose legacy
\* key is in the rotation sub-document, the slot holds the new key with the
\* value stored under the legacy key.  (Stated for the slots other than
\* "awakening", which also takes keys of the settings sub-document, and for
\* inputs without a preset named "global".)
C10_ObjectSlotsFullResolver ==
    (pc = "done" /\ "global" \notin AllPresets) =>
        \A p \in AllPresets : \A i \in 1..Len(SL) :
            (SL[i].v.isdict /\ SL[i].k # "awakening") =>
                /\ WithoutIndicator(SlotOut(p, i).d)
                      = WithoutIndicator(Resolve(rotation_data[p], SL[i].v.d))
                /\ \A nk \in DOMAIN PARSE_MAPPING :
                      (nk \in DOMAIN SL[i].v.d
                          /\ PARSE_MAPPING[nk] \in DOMAIN rotation_data[p])
                      => /\ nk \in DOMAIN SlotOut(p, i).d
                         /\ SlotOut(p, i).d[nk] = rotation_data[p][PARSE_MAPPING[nk]]

====
